---- MODULE Spec2Model ----
(***************************************************************************)
(* Model of libraries/bookverse-devops/scripts/semver_versioning.py: the   *)
(* SemVer helpers, the application version resolver, the package tag       *)
(* resolver with its four registry adapters, and main().                   *)
(*                                                                         *)
(* Python strings are sequences of one-character strings, so that parsing, *)
(* formatting and substring tests are computed and not assumed.            *)
(***************************************************************************)
EXTENDS Integers, Sequences, FiniteSets, TLC

VARIABLES
    scope,           \* which registry answers the run explores in full
    vm,              \* the loaded version map (list of application entries)
    args,            \* --project-key and --stage
    req,             \* requested package names, split and stripped (main, line 469)
    pc,              \* position of main()
    log,             \* registry queries issued so far, in order
    inflight,        \* number of registry queries awaiting their response
    latest_created,  \* compute_next_application_version: result of first_version
    latest,          \* compute_next_application_version: max_semver of tier 2
    app_version,     \* main: app_version
    app_source,      \* which tier produced app_version
    idx,             \* position in req of the package being resolved
    cur,             \* compute_next_package_tag: pkg, seed, repo in use
    returned,        \* the latest return of compute_next_package_tag
    pkg_tags,        \* main: pkg_tags (insertion-ordered dict)
    exit_code,       \* process exit status, -1 while running
    failure,         \* why the process failed
    stdout,          \* objects printed on standard output
    env_file,        \* lines appended to the file named by GITHUB_ENV
    faults,          \* the queries that raised: position in log, str(e)
    mx_values,       \* argument of a direct max_semver call
    mx_result,       \* its result
    mx_pc            \* position of that call

mainVars == <<scope, vm, args, req, pc, log, inflight, latest_created, latest,
              app_version, app_source, idx, cur, returned, pkg_tags, exit_code,
              failure, stdout, env_file, faults>>
mxVars == <<mx_values, mx_result, mx_pc>>
vars == <<mainVars, mxVars>>

---------------------------------------------------------------------------
(* Bounds *)

MaxArr == 2      \* longest array in a registry response
MaxReq == 2      \* most package names in --packages
MaxLen == 3      \* longest list handed to a direct max_semver call
\* the longest --stage string
MaxStage == 3

---------------------------------------------------------------------------
(* Characters and strings *)

DigitChars == <<"0", "1", "2", "3", "4", "5", "6", "7", "8", "9">>
Digits == {DigitChars[k] : k \in 1..10}
Whitespace == {" "}
UpperAlpha == <<"A", "B", "C", "D", "E", "F", "G", "H", "I", "J", "K", "L", "M", "N", "O", "P", "Q", "R", "S", "T", "U", "V", "W", "X", "Y", "Z">>
LowerAlpha == <<"a", "b", "c", "d", "e", "f", "g", "h", "i", "j", "k", "l", "m", "n", "o", "p", "q", "r", "s", "t", "u", "v", "w", "x", "y", "z">>

\* Python None where a string is expected, and the ValueError of bump_patch
NoneS == <<"None">>
ValueError == <<"ValueError">>
\* Python None where a (major, minor, patch) tuple is expected
NoneT == <<>>

SetMin(S) == CHOOSE x \in S : \A y \in S : x <= y
SetMax(S) == CHOOSE x \in S : \A y \in S : x >= y

DigitVal(c) == CHOOSE n \in 0..9 : DigitChars[n + 1] = c

RECURSIVE ToInt(_)
ToInt(s) ==
    IF s = <<>> THEN 0
    ELSE ToInt(SubSeq(s, 1, Len(s) - 1)) * 10 + DigitVal(s[Len(s)])

RECURSIVE ToStr(_)
ToStr(n) ==
    IF n < 10 THEN <<DigitChars[n + 1]>>
    ELSE ToStr(n \div 10) \o <<DigitChars[(n % 10) + 1]>>

\* str.strip()
Strip(s) ==
    LET keep == {k \in 1..Len(s) : s[k] \notin Whitespace}
    IN  IF keep = {} THEN <<>> ELSE SubSeq(s, SetMin(keep), SetMax(keep))

LowerChar(c) ==
    IF \E k \in 1..26 : UpperAlpha[k] = c
    THEN LowerAlpha[CHOOSE k \in 1..26 : UpperAlpha[k] = c]
    ELSE c

UpperChar(c) ==
    IF \E k \in 1..26 : LowerAlpha[k] = c
    THEN UpperAlpha[CHOOSE k \in 1..26 : LowerAlpha[k] = c]
    ELSE c

\* str.lower(), str.upper()
Lower(s) == [k \in 1..Len(s) |-> LowerChar(s[k])]
Upper(s) == [k \in 1..Len(s) |-> UpperChar(s[k])]

\* needle in s
Contains(s, needle) ==
    \E k \in 1..(Len(s) - Len(needle) + 1) :
        SubSeq(s, k, k + Len(needle) - 1) = needle

\* the longest run of digits of s that starts at position k (possibly empty)
DigitRunEnd(s, k) ==
    LET stop == {j \in k..Len(s) : s[j] \notin Digits}
    IN  IF stop = {} THEN Len(s) ELSE SetMin(stop) - 1

\* \d+\.\d+\.\d+ matched at position k of s: the position of its last
\* character, 0 when there is no match.  Each \d+ is followed by a non-digit in
\* every pattern that uses it, so only the longest run can match.
TripleEnd(s, k) ==
    LET e1 == DigitRunEnd(s, k)
        e2 == DigitRunEnd(s, e1 + 2)
        e3 == DigitRunEnd(s, e2 + 2)
    IN  IF /\ e1 >= k
           /\ e1 + 1 <= Len(s) /\ s[e1 + 1] = "."
           /\ e2 >= e1 + 2
           /\ e2 + 1 <= Len(s) /\ s[e2 + 1] = "."
           /\ e3 >= e2 + 2
        THEN e3 ELSE 0

---------------------------------------------------------------------------
(* SemVer model *)

\* SEMVER_RE = ^(\d+)\.(\d+)\.(\d+)$ matched against v.strip()
parse_semver(v) ==
    LET s == Strip(v)
        e == IF Len(s) = 0 THEN 0 ELSE TripleEnd(s, 1)
    IN  IF e = 0 \/ e # Len(s) THEN NoneT
        ELSE LET e1 == DigitRunEnd(s, 1)
                 e2 == DigitRunEnd(s, e1 + 2)
             IN  <<ToInt(SubSeq(s, 1, e1)),
                   ToInt(SubSeq(s, e1 + 2, e2)),
                   ToInt(SubSeq(s, e2 + 2, Len(s)))>>

bump_patch(v) ==
    LET p == parse_semver(v)
    IN  IF p = NoneT THEN ValueError
        ELSE ToStr(p[1]) \o <<".">> \o ToStr(p[2]) \o <<".">> \o ToStr(p[3] + 1)

\* a mutant of KeyLE: the keys compared on their major component only
KeyLE_MajorOnly(a, b) == a[1] <= b[1]

\* Python's ordering of the (major, minor, patch) sort keys
KeyLE(a, b) ==
    \/ a[1] < b[1]
    \/ a[1] = b[1] /\ a[2] < b[2]
    \/ a[1] = b[1] /\ a[2] = b[2] /\ a[3] <= b[3]

\* list.sort(key=lambda x: x[0]) on (tuple, raw) pairs: a stable sort
RECURSIVE SortPairs(_)
SortPairs(ps) ==
    IF Len(ps) <= 1 THEN ps
    ELSE LET rest == SortPairs(SubSeq(ps, 1, Len(ps) - 1))
             x == ps[Len(ps)]
             after == {k \in 1..Len(rest) : KeyLE(rest[k][1], x[1])}
             cut == IF after = {} THEN 0 ELSE SetMax(after)
         IN  SubSeq(rest, 1, cut) \o <<x>> \o SubSeq(rest, cut + 1, Len(rest))

max_semver(values) ==
    LET all == [k \in 1..Len(values) |-> <<parse_semver(values[k]), values[k]>>]
        parsed == SelectSeq(all, LAMBDA p : p[1] # NoneT)
    IN  IF parsed = <<>> THEN NoneS
        ELSE SortPairs(parsed)[Len(parsed)][2]

---------------------------------------------------------------------------
(* Input data: version strings, names, error messages *)

V234 == <<"2", ".", "3", ".", "4">>
V1100 == <<"1", ".", "1", "0", ".", "0">>
V190 == <<"1", ".", "9", ".", "0">>
V0110 == <<"0", "1", ".", "1", "0", ".", "0">>
V009 == <<" ", "0", ".", "0", ".", "9">>
V123 == <<"1", ".", "2", ".", "3">>
VBad == <<"v", "1", ".", "2", ".", "3">>
VShort == <<"1", ".", "2">>
VLong == <<"1", ".", "2", ".", "3", ".", "4">>
VNope == <<"n", "o", "p", "e">>
Seed100 == <<"1", ".", "0", ".", "0">>
SeedBad == <<"1", ".", "0">>
Seed010 == <<"0", ".", "1", ".", "0">>
T020 == <<"0", ".", "2", ".", "0">>
T003 == <<"0", ".", "0", ".", "3">>
TLatest == <<"l", "a", "t", "e", "s", "t">>
NameTgz020 == <<"p", "-", "0", ".", "2", ".", "0", ".", "t", "g", "z">>
Path020 == <<"p", "/", "0", ".", "2", ".", "0">>
NameWhl003 == <<"p", "-", "0", ".", "0", ".", "3", "-", "p", "y", "3", ".", "w", "h", "l">>
Path003 == <<"p", "/", "0", ".", "0", ".", "3", "/", "x">>
NameBeta == <<"p", "-", "1", ".", "2", ".", "3", "-", "b", "e", "t", "a", ".", "t", "g", "z">>
PathRc == <<"p", "/", "1", ".", "2", ".", "3", "-", "r", "c">>

AppKey == <<"b", "o", "o", "k", "v", "e", "r", "s", "e", "-", "w", "e", "b">>
OtherApp == <<"b", "o", "o", "k", "v", "e", "r", "s", "e", "-", "i", "n", "v">>
NameWeb == <<"w", "e", "b">>
NameMyLib == <<"m", "y", "-", "l", "i", "b">>
NameX == <<"x">>
Bookverse == <<"b", "o", "o", "k", "v", "e", "r", "s", "e">>
BookversePrefix == <<"b", "o", "o", "k", "v", "e", "r", "s", "e", "-">>
Acme == <<"a", "c", "m", "e">>
StageDev == <<"D", "E", "V">>
StageQa == <<"b", "o", "o", "k", "v", "e", "r", "s", "e", "-", "q", "a">>

\* str(e) of the exceptions a registry query can raise
E404 == <<"H", "T", "T", "P", " ", "E", "r", "r", "o", "r", " ", "4", "0", "4", ":", " ", "N", "o", "t", " ", "F", "o", "u", "n", "d">>
E400 == <<"H", "T", "T", "P", " ", "E", "r", "r", "o", "r", " ", "4", "0", "0", ":", " ", "B", "a", "d", " ", "R", "e", "q", "u", "e", "s", "t">>
E401 == <<"H", "T", "T", "P", " ", "E", "r", "r", "o", "r", " ", "4", "0", "1", ":", " ", "U", "n", "a", "u", "t", "h", "o", "r", "i", "z", "e", "d">>
ENameUnknown == <<"N", "A", "M", "E", "_", "U", "N", "K", "N", "O", "W", "N">>
\* str(e) of the AttributeError raised by item.get on an item that is no dict
ENoAttr == <<"'", "s", "t", "r", "'", " ", "o", "b", "j", "e", "c", "t", " ", "h", "a", "s", " ", "n", "o", " ", "a", "t", "t", "r", "i", "b", "u", "t", "e", " ", "'", "g", "e", "t", "'">>
ErrPool == {E404, E400, E401, ENameUnknown}

\* the substrings the adapters look for in str(e)
N404 == <<"4", "0", "4">>
N400 == <<"4", "0", "0">>
NNotFound == <<"n", "o", "t", " ", "f", "o", "u", "n", "d">>
NNameUnknown == <<"N", "A", "M", "E", "_", "U", "N", "K", "N", "O", "W", "N">>

\* a JSON value that is neither a string nor null nor an object (a number)
NumV == <<"Num">>

\* all sequences over S of length at most n
SeqsUpTo(S, n) == UNION {[1..k -> S] : k \in 0..n}

---------------------------------------------------------------------------
(* JSON payloads of the application-versions endpoint *)

\* array elements: a record with version/name fields, null, or a bare string
Rec(v, n) == [k |-> "rec", version |-> v, name |-> n, s |-> NoneS]
NullElem == [k |-> "null", version |-> NoneS, name |-> NoneS, s |-> NoneS]
StrElem(x) == [k |-> "str", version |-> NoneS, name |-> NoneS, s |-> x]

AppElems ==
    { Rec(V234, NoneS), Rec(NoneS, V1100), Rec(VBad, V190), Rec(V009, NoneS),
      Rec(NoneS, NoneS), Rec(NumV, NoneS), NullElem, StrElem(V123) }

AppArrays == SeqsUpTo(AppElems, MaxArr)

\* what http_get returns or raises: a JSON object (absent keys as empty
\* arrays), a bare JSON array, text that is not JSON, or an exception
DictPayload(a1, a2, a3, a4) ==
    [shape |-> "dict", versions |-> a1, results |-> a2, items |-> a3,
     data |-> a4, list |-> <<>>, err |-> <<>>]
ListPayload(a) ==
    [shape |-> "list", versions |-> <<>>, results |-> <<>>, items |-> <<>>,
     data |-> <<>>, list |-> a, err |-> <<>>]
TextPayload ==
    [shape |-> "text", versions |-> <<>>, results |-> <<>>, items |-> <<>>,
     data |-> <<>>, list |-> <<>>, err |-> <<>>]
RaisedPayload(e) ==
    [shape |-> "raise", versions |-> <<>>, results |-> <<>>, items |-> <<>>,
     data |-> <<>>, list |-> <<>>, err |-> e]
\* the {} that replaces the payload of a failed query (lines 217, 241)
EmptyDict == DictPayload(<<>>, <<>>, <<>>, <<>>)

\* one answer of each kind: a version, an array of bare strings, a failure
AppPayloadsBrief ==
    { DictPayload(<<Rec(V234, NoneS)>>, <<>>, <<>>, <<>>),
      DictPayload(<<>>, <<>>, <<StrElem(V123)>>, <<>>),
      RaisedPayload(E401) }

AppPayloads ==
    {DictPayload(a, <<>>, <<>>, <<>>) : a \in AppArrays}
    \cup {DictPayload(<<>>, a, <<>>, <<>>) : a \in AppArrays}
    \cup {DictPayload(<<>>, <<>>, a, <<>>) : a \in AppArrays}
    \cup {DictPayload(<<>>, <<>>, <<>>, a) : a \in AppArrays}
    \cup {DictPayload(<<>>, <<Rec(V190, NoneS)>>, <<>>, <<Rec(V234, NoneS)>>)}
    \cup {ListPayload(a) : a \in AppArrays}
    \cup {TextPayload}
    \cup {RaisedPayload(e) : e \in ErrPool}

Truthy(x) == x # NoneS /\ x # <<>>
IsStr(x) == x # NoneS /\ x # NumV

\* obj.get("versions") or obj.get("results") or obj.get("items") or obj.get("data") or []
VersionArray(obj) ==
    IF obj.versions # <<>> THEN obj.versions
    ELSE IF obj.results # <<>> THEN obj.results
    ELSE IF obj.items # <<>> THEN obj.items
    ELSE obj.data

\* (it or {}).get("version") or (it or {}).get("name"), for it a dict or None
VersionField(it) ==
    IF it.k = "null" THEN NoneS
    ELSE IF Truthy(it.version) THEN it.version ELSE it.name

\* first_version: raised is the AttributeError of .get on a bare string
first_version(obj) ==
    IF obj.shape = "dict" /\ VersionArray(obj) # <<>>
    THEN LET it == VersionArray(obj)[1]
         IN  IF it.k = "str" THEN [raised |-> TRUE, v |-> NoneS]
             ELSE [raised |-> FALSE,
                   v |-> IF IsStr(VersionField(it)) THEN VersionField(it) ELSE NoneS]
    ELSE [raised |-> FALSE, v |-> NoneS]

extract_versions(obj) ==
    IF obj.shape = "dict"
    THEN LET arr == VersionArray(obj)
         IN  IF \E k \in 1..Len(arr) : arr[k].k = "str"
             THEN [raised |-> TRUE, out |-> <<>>]
             ELSE LET vs == [k \in 1..Len(arr) |-> VersionField(arr[k])]
                  IN  [raised |-> FALSE,
                       out |-> SelectSeq(vs, LAMBDA v :
                                   IsStr(v) /\ parse_semver(v) # NoneT)]
    ELSE IF obj.shape = "list"
    THEN LET strs == SelectSeq(obj.list, LAMBDA it : it.k = "str")
             vs == [k \in 1..Len(strs) |-> strs[k].s]
         IN  [raised |-> FALSE,
              out |-> SelectSeq(vs, LAMBDA v : parse_semver(v) # NoneT)]
    ELSE [raised |-> FALSE, out |-> <<>>]

---------------------------------------------------------------------------
(* The version map *)

SeedPool == {NoneS, SeedBad, Seed100}

PackageSpec(n, t, s) == [name |-> n, type |-> t, seed |-> s]
PackageTypes == {"docker", "generic", "helm", "python", "pypi", "npm"}

\* the entry of the first requested-for package: every type with a valid
\* seed, and a missing or unparseable seed
WebSpecs ==
    {PackageSpec(NameWeb, t, Seed010) : t \in PackageTypes}
    \cup {PackageSpec(NameWeb, "docker", s) : s \in {NoneS, SeedBad}}
LibSpecs == {PackageSpec(NameMyLib, t, Seed100) : t \in {"generic", "docker"}}

ApplicationEntry(key, seed, pkgs) ==
    [key |-> key, seeds_application |-> seed, packages |-> pkgs]

OtherEntry == ApplicationEntry(OtherApp, V234, <<PackageSpec(NameX, "docker", Seed100)>>)

\* version maps that differ in the application's seed
AppVersionMaps ==
    {<<OtherEntry>>}
    \cup {<<OtherEntry, ApplicationEntry(AppKey, s, <<>>)>> : s \in SeedPool}

\* version maps that differ in the entry of one package
PkgVersionMaps ==
    {<<OtherEntry>>}
    \cup {<<OtherEntry, ApplicationEntry(AppKey, NoneS, <<w>>)>> : w \in WebSpecs}
    \cup {<<ApplicationEntry(AppKey, Seed100, <<w, l>>)>> :
            w \in WebSpecs, l \in LibSpecs}

\* version maps for whole invocations: every adapter type, a missing entry,
\* a missing application seed, an unparseable package seed
VersionMaps ==
    { <<OtherEntry>>,
      <<OtherEntry,
        ApplicationEntry(AppKey, Seed100,
            <<PackageSpec(NameWeb, "docker", Seed010),
              PackageSpec(NameMyLib, "generic", Seed100)>>)>>,
      <<ApplicationEntry(AppKey, Seed100,
            <<PackageSpec(NameWeb, "helm", Seed010),
              PackageSpec(NameMyLib, "python", Seed100)>>)>>,
      <<ApplicationEntry(AppKey, Seed100,
            <<PackageSpec(NameWeb, "generic", Seed010),
              PackageSpec(NameMyLib, "generic", Seed100)>>)>>,
      <<ApplicationEntry(AppKey, NoneS,
            <<PackageSpec(NameWeb, "pypi", Seed010),
              PackageSpec(NameMyLib, "docker", SeedBad)>>)>> }

\* a missing {} entry: no seeds, no packages
NoEntry == ApplicationEntry(<<>>, NoneS, <<>>)

find_app_entry(m, app_key) ==
    LET hits == {k \in 1..Len(m) : Strip(m[k].key) = app_key}
    IN  IF hits = {} THEN NoEntry ELSE m[SetMin(hits)]

---------------------------------------------------------------------------
(* Stage suffix and repository keys *)

stage_suffix_for_repo(stage) ==
    LET s == Strip(IF Truthy(stage) THEN stage ELSE <<>>)
        dashes == {k \in 1..Len(s) : s[k] = "-"}
    IN  IF s = <<>> THEN StageDev
        ELSE IF dashes # {} THEN Upper(SubSeq(s, SetMax(dashes) + 1, Len(s)))
        ELSE Upper(s)

\* str.replace(sub, "")
RECURSIVE RemoveAll(_, _)
RemoveAll(s, sub) ==
    IF Len(s) < Len(sub) THEN s
    ELSE IF SubSeq(s, 1, Len(sub)) = sub
         THEN RemoveAll(SubSeq(s, Len(sub) + 1, Len(s)), sub)
         ELSE <<s[1]>> \o RemoveAll(Tail(s), sub)

\* f"{project_key or 'bookverse'}-{service_name}-internal-{kind}-{repo_stage}-local",
\* kept as its segments
RepoKey(project_key, kind, repo_stage) ==
    <<IF Truthy(project_key) THEN project_key ELSE Bookverse,
      RemoveAll(AppKey, BookversePrefix), "internal", kind, repo_stage, "local">>

---------------------------------------------------------------------------
(* Registry queries and adapter responses *)

AppQuery(limit) == [api |-> "versions", repo |-> <<>>, arg |-> limit]
DockerQuery(repo, package_name) == [api |-> "docker_tags", repo |-> repo, arg |-> package_name]
AqlQuery(repo, match) == [api |-> "aql", repo |-> repo, arg |-> match]

Limit10 == <<"l", "i", "m", "i", "t", "=", "1", "0">>
Limit50 == <<"l", "i", "m", "i", "t", "=", "5", "0">>
MatchAny == <<>>
MatchTgz == <<"*", ".", "t", "g", "z">>
MatchWhl == <<"*", ".", "w", "h", "l">>
TgzSuffix == <<".", "t", "g", "z">>

\* items of a "tags" or "results" array
StrItem(x) == [k |-> "str", s |-> x, name |-> <<>>, path |-> <<>>]
NumItem == [k |-> "num", s |-> <<>>, name |-> <<>>, path |-> <<>>]
FileItem(n, p) == [k |-> "rec", s |-> <<>>, name |-> n, path |-> p]

TagPool == {StrItem(T020), StrItem(T003), StrItem(TLatest), NumItem}
FilePool ==
    { FileItem(NameTgz020, Path020), FileItem(NameWhl003, Path003),
      FileItem(NameBeta, PathRc), StrItem(TLatest) }

\* what http_get / http_post returns or raises: a JSON object that has the
\* "tags" / "results" key or not, text that is not JSON, or an exception
Response(shape, has, arr, e) == [shape |-> shape, has |-> has, arr |-> arr, err |-> e]

DockerResps ==
    {Response("dict", TRUE, a, <<>>) : a \in SeqsUpTo(TagPool, MaxArr)}
    \cup {Response("dict", FALSE, <<>>, <<>>), Response("text", FALSE, <<>>, <<>>)}
    \cup {Response("raise", FALSE, <<>>, e) : e \in ErrPool}

AqlResps ==
    {Response("dict", TRUE, a, <<>>) : a \in SeqsUpTo(FilePool, MaxArr)}
    \cup {Response("dict", FALSE, <<>>, <<>>), Response("text", FALSE, <<>>, <<>>)}
    \cup {Response("raise", FALSE, <<>>, e) : e \in ErrPool}

\* one answer of each kind: versions, nothing, and every failure
DockerRespsBrief ==
    { Response("dict", TRUE, <<StrItem(T020)>>, <<>>),
      Response("dict", FALSE, <<>>, <<>>) }
    \cup {Response("raise", FALSE, <<>>, e) : e \in ErrPool}

AqlRespsBrief ==
    { Response("dict", TRUE, <<FileItem(NameTgz020, Path020)>>, <<>>),
      Response("dict", TRUE, <<FileItem(NameWhl003, Path003)>>, <<>>),
      Response("dict", TRUE, <<>>, <<>>) }
    \cup {Response("raise", FALSE, <<>>, e) : e \in ErrPool}

\* the except clauses: which error texts count as "not found"
DockerNotFound(e) == Contains(e, N404) \/ Contains(e, NNameUnknown)
GenericNotFound(e) ==
    \/ Contains(e, N404) \/ Contains(e, N400)
    \/ Contains(Lower(e), NNotFound) \/ Contains(e, NNameUnknown)
HelmNotFound(e) ==
    Contains(e, N400) \/ Contains(e, N404) \/ Contains(Lower(e), NNotFound)

\* a mutant of PythonNotFound: every failure is taken for "not found"
PythonNotFound_Any(e) == TRUE

PythonNotFound(e) ==
    Contains(e, N400) \/ Contains(e, N404) \/ Contains(Lower(e), NNotFound)

\* re.search(r'/(\d+\.\d+\.\d+)(?:/|$)', path): group 1 of the leftmost match
GenericVersion(path) ==
    LET at == {k \in 1..Len(path) :
                 /\ path[k] = "/"
                 /\ TripleEnd(path, k + 1) > 0
                 /\ \/ TripleEnd(path, k + 1) = Len(path)
                    \/ path[TripleEnd(path, k + 1) + 1] = "/"}
    IN  IF at = {} THEN NoneS
        ELSE SubSeq(path, SetMin(at) + 1, TripleEnd(path, SetMin(at) + 1))

\* re.search(r'-(\d+\.\d+\.\d+)\.tgz$', name)
HelmVersion(name) ==
    LET at == {k \in 1..Len(name) :
                 /\ name[k] = "-"
                 /\ TripleEnd(name, k + 1) > 0
                 /\ SubSeq(name, TripleEnd(name, k + 1) + 1, Len(name)) = TgzSuffix}
    IN  IF at = {} THEN NoneS
        ELSE SubSeq(name, SetMin(at) + 1, TripleEnd(name, SetMin(at) + 1))

\* re.search(r'-(\d+\.\d+\.\d+)-', name)
PythonVersion(name) ==
    LET at == {k \in 1..Len(name) :
                 /\ name[k] = "-"
                 /\ TripleEnd(name, k + 1) > 0
                 /\ TripleEnd(name, k + 1) < Len(name)
                 /\ name[TripleEnd(name, k + 1) + 1] = "-"}
    IN  IF at = {} THEN NoneS
        ELSE SubSeq(name, SetMin(at) + 1, TripleEnd(name, SetMin(at) + 1))

\* the outcome of one adapter query: the versions appended to
\* existing_versions, whether sys.exit(1) was called, whether a "not found"
\* failure was swallowed
Collected(vs) == [fatal |-> FALSE, notfound |-> FALSE, versions |-> vs]
Swallowed(vs) == [fatal |-> FALSE, notfound |-> TRUE, versions |-> vs]
Fatal == [fatal |-> TRUE, notfound |-> FALSE, versions |-> <<>>]

\* lines 306-325
docker_collect(resp) ==
    IF resp.shape = "raise"
    THEN IF DockerNotFound(resp.err) THEN Swallowed(<<>>) ELSE Fatal
    ELSE IF resp.shape = "dict" /\ resp.has
    THEN LET strs == SelectSeq(resp.arr, LAMBDA it : it.k = "str")
             tags == [k \in 1..Len(strs) |-> strs[k].s]
         IN  Collected(SelectSeq(tags, LAMBDA t : parse_semver(t) # NoneT))
    ELSE Collected(<<>>)

\* the loop over resp["results"]: item.get raises on the first item that is
\* no dict, after the versions of the items before it were appended
ExtractVersion(kind, it) ==
    IF kind = "generic" THEN GenericVersion(it.path)
    ELSE IF kind = "helm" THEN HelmVersion(it.name)
    ELSE PythonVersion(it.name)

FileVersions(arr, kind) ==
    LET bad == {k \in 1..Len(arr) : arr[k].k # "rec"}
        upto == IF bad = {} THEN Len(arr) ELSE SetMin(bad) - 1
        vs == [k \in 1..upto |-> ExtractVersion(kind, arr[k])]
    IN  [raised |-> bad # {}, versions |-> SelectSeq(vs, LAMBDA v : v # NoneS)]

\* lines 328-361
generic_collect(resp) ==
    IF resp.shape = "raise"
    THEN IF GenericNotFound(resp.err) THEN Swallowed(<<>>) ELSE Fatal
    ELSE IF resp.shape = "dict" /\ resp.has
    THEN LET r == FileVersions(resp.arr, "generic")
         IN  IF ~r.raised THEN Collected(r.versions)
             ELSE IF GenericNotFound(ENoAttr) THEN Swallowed(r.versions) ELSE Fatal
    ELSE Collected(<<>>)

\* lines 364-395
helm_collect(resp) ==
    IF resp.shape = "raise"
    THEN IF HelmNotFound(resp.err) THEN Swallowed(<<>>) ELSE Fatal
    ELSE IF resp.shape = "dict" /\ resp.has
    THEN LET r == FileVersions(resp.arr, "helm")
         IN  IF ~r.raised THEN Collected(r.versions)
             ELSE IF HelmNotFound(ENoAttr) THEN Swallowed(r.versions) ELSE Fatal
    ELSE Collected(<<>>)

\* lines 410-433, one pass of the loop over the two repository keys
python_collect(resp) ==
    IF resp.shape = "raise"
    THEN IF PythonNotFound(resp.err) THEN Swallowed(<<>>) ELSE Fatal
    ELSE IF resp.shape = "dict" /\ resp.has /\ Len(resp.arr) > 0
    THEN LET r == FileVersions(resp.arr, "python")
         IN  IF ~r.raised THEN Collected(r.versions)
             ELSE IF PythonNotFound(ENoAttr) THEN Swallowed(r.versions) ELSE Fatal
    ELSE Collected(<<>>)

\* line 412: the condition under which the loop over the repository keys breaks
PythonBreaks(resp) == resp.shape = "dict" /\ resp.has /\ Len(resp.arr) > 0

\* a mutant of next_tag: the higher of the live maximum and the seed
next_tag_MaxWithSeed(existing_versions, seed) ==
    bump_patch(max_semver(existing_versions \o <<seed>>))

\* lines 435-440
next_tag(existing_versions, seed) ==
    IF existing_versions # <<>> /\ Truthy(max_semver(existing_versions))
    THEN bump_patch(max_semver(existing_versions))
    ELSE bump_patch(seed)

---------------------------------------------------------------------------
(* main(): inputs *)

ReqNames == {NameWeb, NameMyLib, NameX}
ArgsPool ==
    { [project_key |-> NoneS, stage |-> StageDev],
      [project_key |-> Acme, stage |-> StageQa] }

NoCur == [name |-> <<>>, seed |-> NoneS, type |-> "", variant |-> 0]
NoReturn ==
    [name |-> <<>>, type |-> "", seed |-> NoneS, collected |-> <<>>,
     notfound |-> FALSE, tag |-> NoneS]

\* a mutant of DictSet: the new key goes to the front
DictSet_Prepend(d, key, value) == <<[key |-> key, value |-> value]>> \o d

\* dict[key] = value on an insertion-ordered dict kept as a list of pairs
DictSet(d, key, value) ==
    IF \E k \in 1..Len(d) : d[k].key = key
    THEN [k \in 1..Len(d) |-> IF d[k].key = key THEN [key |-> key, value |-> value] ELSE d[k]]
    ELSE Append(d, [key |-> key, value |-> value])

\* re.sub(r"[^A-Za-z0-9_]", "_", k.upper())
EnvKey(name) ==
    LET u == Upper(name)
        keep(c) == \/ c \in Digits \/ c = "_"
                   \/ \E k \in 1..26 : UpperAlpha[k] = c \/ LowerAlpha[k] = c
    IN  [k \in 1..Len(u) |-> IF keep(u[k]) THEN u[k] ELSE "_"]

AppVersionKey == <<"A", "P", "P", "_", "V", "E", "R", "S", "I", "O", "N">>
DockerTagPrefix == <<"D", "O", "C", "K", "E", "R", "_", "T", "A", "G", "_">>

\* lines 476-480: the lines appended to the CI environment file
EnvLines(version, tags) ==
    <<[key |-> AppVersionKey, value |-> version]>>
    \o [k \in 1..Len(tags) |->
          [key |-> DockerTagPrefix \o EnvKey(tags[k].key), value |-> tags[k].value]]

\* lines 482-487
ResultObject(version, tags) ==
    [application_key |-> AppKey, app_version |-> version, package_tags |-> tags,
     source |-> "latest+bump or seed fallback"]

RepoStage == stage_suffix_for_repo(IF Truthy(args.stage) THEN args.stage ELSE StageDev)

---------------------------------------------------------------------------
(* main(): the state machine *)

Started ==
    /\ pc = "start"
    /\ log = <<>>
    /\ inflight = 0
    /\ latest_created = NoneS
    /\ latest = NoneS
    /\ app_version = NoneS
    /\ app_source = "none"
    /\ idx = 1
    /\ cur = NoCur
    /\ returned = NoReturn
    /\ pkg_tags = <<>>
    /\ exit_code = -1
    /\ failure = "none"
    /\ stdout = <<>>
    /\ env_file = <<>>
    /\ faults = <<>>

MxIdle == mx_values = <<>> /\ mx_result = NoneS /\ mx_pc = "idle"

\* whole invocations: up to MaxReq packages, one registry answer of each kind
Init ==
    /\ scope = "invocation"
    /\ vm \in VersionMaps
    /\ args \in ArgsPool
    /\ req \in SeqsUpTo(ReqNames, MaxReq)
    /\ Started
    /\ MxIdle

\* invocations for one package: every adapter answer
PkgInit ==
    /\ scope = "package"
    /\ vm \in PkgVersionMaps
    /\ args \in ArgsPool
    /\ req \in {<<n>> : n \in ReqNames}
    /\ Started
    /\ MxIdle

\* an invocation with no --packages: every application answer
AppInit ==
    /\ scope = "application"
    /\ vm \in AppVersionMaps
    /\ args \in ArgsPool
    /\ req = <<>>
    /\ Started
    /\ MxIdle

\* the answers the application-versions endpoint may give
AppResponses == IF scope = "application" THEN AppPayloads ELSE AppPayloadsBrief
\* the answers the tag-listing and the file-search endpoints may give
DockerResponses == IF scope = "package" THEN DockerResps ELSE DockerRespsBrief
AqlResponses == IF scope = "package" THEN AqlResps ELSE AqlRespsBrief

\* a mutant of Die: the failure is reported but the exit status is 0
Die_ExitZero(reason) ==
    /\ exit_code' = 0
    /\ failure' = reason
    /\ pc' = "exited"

\* the process ends with exit status 1: SystemExit(message), sys.exit(1), or an
\* exception nobody catches
Die(reason) ==
    /\ exit_code' = 1
    /\ failure' = reason
    /\ pc' = "exited"

Issue(q, name) ==
    /\ log' = Append(log, [q |-> q, pkg |-> name])
    /\ inflight' = inflight + 1

\* the response arrives; a raised exception is recorded
Receive(resp) ==
    /\ inflight' = inflight - 1
    /\ faults' = IF resp.shape = "raise"
                 THEN Append(faults, [at |-> Len(log), err |-> resp.err])
                 ELSE faults

\* a mutant of Tier1Accepts: tier 1 is never trusted
Tier1Accepts_Never(v) == FALSE

\* line 234
Tier1Accepts(v) == IsStr(v) /\ parse_semver(v) # NoneT

\* lines 213-215
Tier1Issue ==
    /\ pc = "start"
    /\ Issue(AppQuery(Limit10), <<>>)
    /\ pc' = "tier1"
    /\ UNCHANGED <<scope, vm, args, req, latest_created, latest, app_version, app_source,
                   idx, cur, returned, pkg_tags, exit_code, failure, stdout,
                   env_file, faults, mxVars>>

\* a mutant of Absorb: the exception of a failed query is let through
Absorb_Reraise(resp) == resp

\* lines 216-217, 240-241: except Exception: payload = {}
Absorb(resp) == IF resp.shape = "raise" THEN EmptyDict ELSE resp

\* lines 215-235
Tier1Reply ==
    /\ pc = "tier1"
    /\ \E resp \in AppResponses :
        LET payload == Absorb(resp)
            fv == first_version(payload)
        IN  /\ Receive(resp)
            /\ IF payload.shape = "raise"
               THEN /\ Die("RegistryFatal")
                    /\ UNCHANGED <<latest_created, app_version, app_source>>
               ELSE IF fv.raised
               THEN /\ Die("AttributeError")
                    /\ UNCHANGED <<latest_created, app_version, app_source>>
               ELSE /\ latest_created' = fv.v
                    /\ IF Tier1Accepts(fv.v)
                       THEN /\ app_version' = bump_patch(fv.v)
                            /\ app_source' = "tier1"
                            /\ pc' = "pkg"
                       ELSE /\ pc' = "tier2_issue"
                            /\ UNCHANGED <<app_version, app_source>>
                    /\ UNCHANGED <<exit_code, failure>>
    /\ UNCHANGED <<scope, vm, args, req, log, latest, idx, cur, returned, pkg_tags,
                   stdout, env_file, mxVars>>

\* lines 237-239
Tier2Issue ==
    /\ pc = "tier2_issue"
    /\ Issue(AppQuery(Limit50), <<>>)
    /\ pc' = "tier2"
    /\ UNCHANGED <<scope, vm, args, req, latest_created, latest, app_version, app_source,
                   idx, cur, returned, pkg_tags, exit_code, failure, stdout,
                   env_file, faults, mxVars>>

\* lines 267-268
AppSeed == find_app_entry(vm, AppKey).seeds_application

\* lines 269, 298: not (not seed or not parse_semver(str(seed)))
SeedUsable(seed) == Truthy(seed) /\ parse_semver(seed) # NoneT

\* lines 239-271
Tier2Reply ==
    /\ pc = "tier2"
    /\ \E resp \in AppResponses :
        LET payload == Absorb(resp)
            ev == extract_versions(payload)
            mx == max_semver(ev.out)
        IN  /\ Receive(resp)
            /\ IF payload.shape = "raise"
               THEN /\ Die("RegistryFatal")
                    /\ UNCHANGED <<latest, app_version, app_source>>
               ELSE IF ev.raised
               THEN /\ Die("AttributeError")
                    /\ UNCHANGED <<latest, app_version, app_source>>
               ELSE /\ latest' = mx
                    /\ IF Truthy(mx)
                       THEN /\ app_version' = bump_patch(mx)
                            /\ app_source' = "tier2"
                            /\ pc' = "pkg"
                            /\ UNCHANGED <<exit_code, failure>>
                       ELSE IF SeedUsable(AppSeed)
                       THEN /\ app_version' = bump_patch(AppSeed)
                            /\ app_source' = "seed"
                            /\ pc' = "pkg"
                            /\ UNCHANGED <<exit_code, failure>>
                       ELSE /\ Die("MissingSeed")
                            /\ UNCHANGED <<app_version, app_source>>
    /\ UNCHANGED <<scope, vm, args, req, log, latest_created, idx, cur, returned,
                   pkg_tags, stdout, env_file, mxVars>>

---------------------------------------------------------------------------
(* compute_next_package_tag *)

\* lines 285-290: the first package of the entry with the requested name
FindPackage(name) ==
    LET pkgs == find_app_entry(vm, AppKey).packages
        hits == {k \in 1..Len(pkgs) : Strip(pkgs[k].name) = name}
    IN  IF hits = {} THEN NoCur
        ELSE [name |-> name, seed |-> pkgs[SetMin(hits)].seed,
              type |-> pkgs[SetMin(hits)].type, variant |-> 1]

AdapterTypes == {"docker", "generic", "helm", "python", "pypi"}

\* the return of compute_next_package_tag and line 470 of main
ReturnTag(p, versions, notfound) ==
    /\ pkg_tags' = DictSet(pkg_tags, p.name, next_tag(versions, p.seed))
    /\ returned' = [name |-> p.name, type |-> p.type, seed |-> p.seed,
                    collected |-> versions, notfound |-> notfound,
                    tag |-> next_tag(versions, p.seed)]
    /\ idx' = idx + 1
    /\ cur' = NoCur
    /\ pc' = "pkg"
    /\ UNCHANGED <<exit_code, failure>>

\* a mutant of PackageStep: the seed is validated only after the registry was asked
PackageStep_SeedLate(p) ==
    IF p = NoCur THEN "PackageNotFound"
    ELSE IF p.type \in AdapterTypes THEN "query"
    ELSE IF ~SeedUsable(p.seed) THEN "MissingSeed"
    ELSE "return"

\* lines 292-305: what compute_next_package_tag does before any query
PackageStep(p) ==
    IF p = NoCur THEN "PackageNotFound"
    ELSE IF ~SeedUsable(p.seed) THEN "MissingSeed"
    ELSE IF p.type \in AdapterTypes THEN "query"
    ELSE "return"

\* lines 469-470 and 285-305
PkgStart ==
    /\ pc = "pkg"
    /\ idx <= Len(req)
    /\ LET p == FindPackage(req[idx])
           step == PackageStep(p)
       IN  IF step \in {"PackageNotFound", "MissingSeed"}
           THEN /\ Die(step)
                /\ UNCHANGED <<cur, idx, returned, pkg_tags>>
           ELSE IF step = "query"
           THEN /\ cur' = p
                /\ pc' = "adapter_issue"
                /\ UNCHANGED <<idx, returned, pkg_tags, exit_code, failure>>
           ELSE ReturnTag(p, <<>>, FALSE)
    /\ UNCHANGED <<scope, vm, args, req, log, inflight, latest_created, latest,
                   app_version, app_source, stdout, env_file, faults, mxVars>>

\* line 403: for repo_key in [pypi_repo_key, python_repo_key]
PythonRepoKinds == <<"pypi", "python">>

\* the request of the adapter of p: lines 308-311, 330-337, 366-373, 400-410
AdapterQuery(p) ==
    IF p.type = "docker"
    THEN DockerQuery(RepoKey(args.project_key, "docker", RepoStage), p.name)
    ELSE IF p.type = "generic"
    THEN AqlQuery(RepoKey(args.project_key, "generic", RepoStage), MatchAny)
    ELSE IF p.type = "helm"
    THEN AqlQuery(RepoKey(args.project_key, "helm", RepoStage), MatchTgz)
    ELSE AqlQuery(RepoKey(args.project_key, PythonRepoKinds[p.variant], RepoStage),
                  MatchWhl)

AdapterIssue ==
    /\ pc = "adapter_issue"
    /\ Issue(AdapterQuery(cur), cur.name)
    /\ pc' = "adapter_wait"
    /\ UNCHANGED <<scope, vm, args, req, latest_created, latest, app_version, app_source,
                   idx, cur, returned, pkg_tags, exit_code, failure, stdout,
                   env_file, faults, mxVars>>

\* the end of an adapter: sys.exit(1), or on to lines 435-440
AdapterDone(r) ==
    IF r.fatal
    THEN /\ Die("RegistryFatal")
         /\ UNCHANGED <<cur, idx, returned, pkg_tags>>
    ELSE ReturnTag(cur, r.versions, r.notfound)

DockerReply ==
    /\ pc = "adapter_wait"
    /\ cur.type = "docker"
    /\ \E resp \in DockerResponses :
        /\ Receive(resp)
        /\ AdapterDone(docker_collect(resp))
    /\ UNCHANGED <<scope, vm, args, req, log, latest_created, latest, app_version,
                   app_source, stdout, env_file, mxVars>>

GenericReply ==
    /\ pc = "adapter_wait"
    /\ cur.type = "generic"
    /\ \E resp \in AqlResponses :
        /\ Receive(resp)
        /\ AdapterDone(generic_collect(resp))
    /\ UNCHANGED <<scope, vm, args, req, log, latest_created, latest, app_version,
                   app_source, stdout, env_file, mxVars>>

HelmReply ==
    /\ pc = "adapter_wait"
    /\ cur.type = "helm"
    /\ \E resp \in AqlResponses :
        /\ Receive(resp)
        /\ AdapterDone(helm_collect(resp))
    /\ UNCHANGED <<scope, vm, args, req, log, latest_created, latest, app_version,
                   app_source, stdout, env_file, mxVars>>

\* lines 403-433: the loop goes on to the next repository key when the response
\* was no exception and did not break the loop
PythonReply ==
    /\ pc = "adapter_wait"
    /\ cur.type \in {"python", "pypi"}
    /\ \E resp \in AqlResponses :
        /\ Receive(resp)
        /\ IF resp.shape # "raise" /\ ~PythonBreaks(resp)
              /\ cur.variant < Len(PythonRepoKinds)
           THEN /\ cur' = [cur EXCEPT !.variant = @ + 1]
                /\ pc' = "adapter_issue"
                /\ UNCHANGED <<idx, returned, pkg_tags, exit_code, failure>>
           ELSE AdapterDone(python_collect(resp))
    /\ UNCHANGED <<scope, vm, args, req, log, latest_created, latest, app_version,
                   app_source, stdout, env_file, mxVars>>

\* lines 474-488, after the last package: the environment file when GITHUB_ENV
\* is set, the JSON object, and the normal end of the process
Emit ==
    /\ pc = "pkg"
    /\ idx > Len(req)
    /\ \E github_env \in BOOLEAN :
        env_file' = IF github_env THEN env_file \o EnvLines(app_version, pkg_tags)
                    ELSE env_file
    /\ stdout' = Append(stdout, ResultObject(app_version, pkg_tags))
    /\ exit_code' = 0
    /\ pc' = "exited"
    /\ UNCHANGED <<scope, vm, args, req, log, inflight, latest_created, latest,
                   app_version, app_source, idx, cur, returned, pkg_tags, failure,
                   faults, mxVars>>

Next ==
    \/ Tier1Issue
    \/ Tier1Reply
    \/ Tier2Issue
    \/ Tier2Reply
    \/ PkgStart
    \/ AdapterIssue
    \/ DockerReply
    \/ GenericReply
    \/ HelmReply
    \/ PythonReply
    \/ Emit

Spec == Init /\ [][Next]_vars

NextApp ==
    \/ Tier1Issue
    \/ Tier1Reply
    \/ Tier2Issue
    \/ Tier2Reply
    \/ Emit

SpecApp == AppInit /\ [][NextApp]_vars

SpecPkg == PkgInit /\ [][Next]_vars

\* --stage, or PACKAGE_REPO_STAGE when the option is not given: strings of a
\* letter, the separator and a blank
StagePool == SeqsUpTo({"q", "-", " "}, MaxStage) \cup {StageQa}

\* invocations for one package under every stage string
StageInit ==
    /\ scope = "stage"
    /\ vm \in VersionMaps
    /\ args \in {[project_key |-> NoneS, stage |-> st] : st \in StagePool}
    /\ req \in {<<n>> : n \in {NameWeb, NameMyLib}}
    /\ Started
    /\ MxIdle

SpecStage == StageInit /\ [][Next]_vars

---------------------------------------------------------------------------
(* max_semver called directly on arbitrary lists *)

MaxPool == {V190, V1100, V0110, V009, VBad, VShort, VLong, VNope}

MainIdle ==
    /\ scope = "max_semver" /\ vm = <<>> /\ args = [project_key |-> NoneS, stage |-> StageDev]
    /\ req = <<>> /\ pc = "idle" /\ log = <<>> /\ inflight = 0
    /\ latest_created = NoneS /\ latest = NoneS /\ app_version = NoneS
    /\ app_source = "none" /\ idx = 1 /\ cur = NoCur /\ returned = NoReturn
    /\ pkg_tags = <<>> /\ exit_code = -1 /\ failure = "none"
    /\ stdout = <<>> /\ env_file = <<>> /\ faults = <<>>

MaxCall ==
    /\ mx_pc = "call"
    /\ mx_result' = max_semver(mx_values)
    /\ mx_pc' = "ret"
    /\ UNCHANGED <<mx_values, mainVars>>

MaxInit ==
    /\ mx_values \in SeqsUpTo(MaxPool, MaxLen)
    /\ mx_result = NoneS
    /\ mx_pc = "call"
    /\ MainIdle

SpecMax == MaxInit /\ [][MaxCall]_vars

---------------------------------------------------------------------------
(* Properties *)

\* numeric lexicographic order on (major, minor, patch)
TripleGE(a, b) ==
    \/ a[1] > b[1]
    \/ a[1] = b[1] /\ a[2] > b[2]
    \/ a[1] = b[1] /\ a[2] = b[2] /\ a[3] >= b[3]

\* v reads as the version base with its patch component raised by one
IsBumpOf(v, base) ==
    /\ IsStr(v) /\ IsStr(base)
    /\ parse_semver(base) # NoneT
    /\ parse_semver(v) = <<parse_semver(base)[1], parse_semver(base)[2],
                           parse_semver(base)[3] + 1>>

Tier1Query == AppQuery(Limit10)
Tier2Query == AppQuery(Limit50)
Asked(q) == \E k \in 1..Len(log) : log[k].q = q

\* C1: the fallback of the application version is strictly ordered.  When
\* tier 1 yielded a parseable version the result is its patch bump and tier 2
\* is never queried; tier 2 is queried only when tier 1 yielded no version;
\* the seed is used only when tier 2 was queried and yielded no version.
C1_StrictFallback ==
    /\ (IsStr(latest_created) /\ parse_semver(latest_created) # NoneT)
          => /\ app_source = "tier1"
             /\ IsBumpOf(app_version, latest_created)
             /\ ~Asked(Tier2Query)
    /\ Asked(Tier2Query)
          => /\ log[1].q = Tier1Query
             /\ pc # "tier1"
             /\ ~(IsStr(latest_created) /\ parse_semver(latest_created) # NoneT)
    /\ app_source = "tier2"
          => /\ Asked(Tier2Query)
             /\ IsBumpOf(app_version, latest)
    /\ app_source = "seed"
          => /\ Asked(Tier2Query)
             /\ pc # "tier2"
             /\ latest = NoneS
             /\ IsBumpOf(app_version, AppSeed)
    /\ app_source = "none" => app_version = NoneS

\* C1 witness: tier 1 gave 0.0.9 and is used although the seed 1.0.0 is higher
C1_Witness ==
    /\ app_source = "tier1"
    /\ latest_created = V009
    /\ AppSeed = Seed100
    /\ app_version = <<"0", ".", "0", ".", "1", "0">>
    /\ ~Asked(Tier2Query)
    /\ exit_code = 0

\* C3: a failed tier-1 or tier-2 query counts as "no data": after a tier-1
\* failure the tier-2 query is the next thing issued, after a tier-2 failure the
\* seed decides, and with the seed 1.0.0 the result is 1.0.1.
C3_AppFailuresAbsorbed ==
    \A k \in 1..Len(faults) :
        LET q == log[faults[k].at].q
        IN  /\ q = Tier1Query
                => /\ latest_created = NoneS
                   /\ failure # "RegistryFatal"
                   /\ \/ pc = "tier2_issue"
                      \/ Len(log) >= 2 /\ log[2].q = Tier2Query
            /\ q = Tier2Query
                => /\ latest = NoneS
                   /\ failure \notin {"RegistryFatal", "AttributeError"}
                   /\ IF AppSeed = Seed100
                      THEN /\ app_source = "seed"
                           /\ app_version = <<"1", ".", "0", ".", "1">>
                      ELSE /\ failure = "MissingSeed"
                           /\ exit_code = 1
                           /\ app_version = NoneS

\* C3 witness: both queries failed and the run still ended with 1.0.1
C3_Witness ==
    /\ Len(faults) = 2
    /\ log[faults[1].at].q = Tier1Query
    /\ log[faults[2].at].q = Tier2Query
    /\ app_version = <<"1", ".", "0", ".", "1">>
    /\ exit_code = 0
    /\ Len(stdout) = 1

\* C9: max_semver ignores the entries that do not parse, returns an entry
\* whose triple is at least the triple of every entry that parses, and
\* returns None exactly when no entry parses.
C9_MaxSemver ==
    mx_pc = "ret" =>
        LET ok == {k \in 1..Len(mx_values) : parse_semver(mx_values[k]) # NoneT}
        IN  /\ (mx_result = NoneS) <=> (ok = {})
            /\ ok # {} =>
                 \E k \in ok :
                    /\ mx_values[k] = mx_result
                    /\ \A j \in ok : TripleGE(parse_semver(mx_values[k]),
                                              parse_semver(mx_values[j]))

\* C9 witness: 1.10.0 beats 1.9.0 in a list that also holds invalid entries
C9_Witness ==
    /\ mx_pc = "ret"
    /\ mx_result = V1100
    /\ \E k \in 1..Len(mx_values) : mx_values[k] = V190
    /\ \E k \in 1..Len(mx_values) : mx_values[k] = VNope

\* C10: the application resolver fails with MissingSeed only (the claim as
\* stated; the code also dies of an AttributeError).
C10_OnlyMissingSeed ==
    (exit_code = 1 /\ app_version = NoneS) => failure = "MissingSeed"

\* the adapter a request belongs to, read off the request
AdapterOf(q) == IF q.api = "versions" THEN "application" ELSE q.repo[4]

\* the failure texts each adapter does not take for "not found"
FatalFor(kind) ==
    IF kind = "docker" THEN {E400, E401}
    ELSE IF kind = "generic" THEN {E401}
    ELSE IF kind \in {"helm", "pypi", "python"} THEN {E401, ENameUnknown}
    ELSE {}

\* the run ended fatally right after the query at position at of the log
FatalAt(at) ==
    /\ pc = "exited"
    /\ exit_code = 1
    /\ Len(log) = at
    /\ stdout = <<>>
    /\ env_file = <<>>

\* C2 as stated: an authentication failure (HTTP 401) of any registry query,
\* application query or adapter query, ends the invocation at once with exit
\* code 1: no later query, no output.
C2_AnyAuthFailureFatal ==
    \A k \in 1..Len(faults) : faults[k].err = E401 => FatalAt(faults[k].at)

\* C2 amended: a failed adapter query whose failure text carries none of the
\* adapter's "not found" markers ends the invocation at once with exit code 1,
\* no later query and no output; a failed application query never does, and
\* neither does an adapter failure that carries a "not found" marker.
C2_FatalAdapterFailure ==
    \A k \in 1..Len(faults) :
        LET f == faults[k]
            kind == AdapterOf(log[f.at].q)
        IN  IF f.err \in FatalFor(kind)
            THEN /\ FatalAt(f.at)
                 /\ failure = "RegistryFatal"
                 /\ k = Len(faults)
            ELSE ~(failure = "RegistryFatal" /\ Len(log) = f.at)

\* C2 witness: an adapter query failed with 401 after the application version
\* and an earlier package were resolved, and the run ended with nothing emitted
C2_Witness ==
    /\ faults # <<>>
    /\ faults[Len(faults)].err = E401
    /\ AdapterOf(log[Len(log)].q) # "application"
    /\ faults[Len(faults)].at = Len(log)
    /\ app_version # NoneS
    /\ pkg_tags # <<>>
    /\ exit_code = 1
    /\ stdout = <<>>

\* C4: the tag returned for a package with a parseable seed is the patch bump
\* of the greatest version its adapter collected when it collected any, and
\* the patch bump of the seed otherwise, also after a swallowed "not found";
\* the seed plays no part when a version was collected.
C4_PackageTag ==
    returned # NoReturn =>
        LET vs == returned.collected
            ok == {k \in 1..Len(vs) : parse_semver(vs[k]) # NoneT}
        IN  /\ parse_semver(returned.seed) # NoneT
            /\ IF ok # {}
               THEN \E k \in ok :
                       /\ \A j \in ok : TripleGE(parse_semver(vs[k]), parse_semver(vs[j]))
                       /\ IsBumpOf(returned.tag, vs[k])
               ELSE IsBumpOf(returned.tag, returned.seed)
            /\ returned.notfound => IsBumpOf(returned.tag, returned.seed)
            /\ \E j \in 1..Len(pkg_tags) :
                   pkg_tags[j] = [key |-> returned.name, value |-> returned.tag]

\* C4 witness: the registry holds 0.0.3 only, the seed is 0.1.0, the tag is 0.0.4
C4_Witness ==
    /\ returned.seed = Seed010
    /\ returned.collected = <<T003>>
    /\ returned.tag = <<"0", ".", "0", ".", "4">>
    /\ exit_code = 0

\* C4 witness of the first build: "not found" was swallowed, the tag is the
\* patch bump of the seed 0.1.0
C4_WitnessNotFound ==
    /\ returned.notfound
    /\ returned.seed = Seed010
    /\ returned.tag = <<"0", ".", "1", ".", "1">>

\* C5: the package resolver checks the name, then the seed, before any adapter
\* query: every adapter query in the log is for a package that is in the entry
\* with a parseable seed; a requested name that is absent ends the run with
\* PackageNotFound, a present one with a missing or unparseable seed with
\* MissingSeed.
C5_PreconditionsFirst ==
    /\ \A k \in 1..Len(log) :
          log[k].q.api # "versions" =>
              LET p == FindPackage(log[k].pkg)
              IN  /\ p # NoCur
                  /\ p.seed # NoneS
                  /\ parse_semver(p.seed) # NoneT
    /\ (app_version # NoneS /\ idx <= Len(req) /\ pc # "pkg") =>
          LET p == FindPackage(req[idx])
          IN  /\ p = NoCur => pc = "exited" /\ exit_code = 1 /\ failure = "PackageNotFound"
              /\ (p # NoCur /\ (p.seed = NoneS \/ parse_semver(p.seed) = NoneT))
                    => pc = "exited" /\ exit_code = 1 /\ failure = "MissingSeed"
    /\ failure = "PackageNotFound" => FindPackage(req[idx]) = NoCur
    /\ (failure = "MissingSeed" /\ app_version # NoneS) => FindPackage(req[idx]) # NoCur

\* C5 witness: the package is in the entry with the seed "1.0"; the run ended
\* with MissingSeed and only the application queries were issued
C5_Witness ==
    /\ failure = "MissingSeed"
    /\ app_version # NoneS
    /\ idx <= Len(req)
    /\ FindPackage(req[idx]).seed = SeedBad
    /\ \A k \in 1..Len(log) : log[k].q.api = "versions"

\* C5 witness of the other precondition: the name is not in the entry
C5_WitnessNotFound ==
    /\ failure = "PackageNotFound"
    /\ app_version # NoneS
    /\ \A k \in 1..Len(log) : log[k].q.api = "versions"

\* C6 as stated: the python-style repository is queried only right after the
\* pypi-style one, for the same package, and it is queried whenever the
\* pypi-style query ended in "not found" (HTTP 404).
C6_PythonVariantAfterNotFound ==
    /\ \A k \in 1..Len(log) :
          AdapterOf(log[k].q) = "python" =>
              /\ k > 1
              /\ AdapterOf(log[k - 1].q) = "pypi"
              /\ log[k - 1].pkg = log[k].pkg
    /\ \A k \in 1..Len(faults) :
          (AdapterOf(log[faults[k].at].q) = "pypi" /\ faults[k].err = E404) =>
              \/ pc = "adapter_issue" /\ Len(log) = faults[k].at
              \/ /\ Len(log) > faults[k].at
                 /\ AdapterOf(log[faults[k].at + 1].q) = "python"

\* no element occurs twice
Distinct(s) == \A i, j \in 1..Len(s) : i # j => s[i] # s[j]

\* the place of a name in the request
PlaceOf(name) == SetMin({k \in 1..Len(req) : req[k] = name})

\* C7 as stated: with distinct requested names no request is sent twice.
C7_NoRequestTwice ==
    Distinct(req) =>
        \A j, k \in 1..Len(log) : j # k => log[j].q # log[k].q

\* C7 amended: with distinct requested names the queries go out one at a time:
\* tier 1 first, tier 2 second if at all, then the adapter queries package by
\* package in request order and only once the application version is known;
\* no request is sent twice for the same package; the keys of package_tags
\* are in request order.
C7_SequentialInOrder ==
    Distinct(req) =>
        /\ inflight \in {0, 1}
        /\ inflight = 1 <=> pc \in {"tier1", "tier2", "adapter_wait"}
        /\ \A k \in 1..Len(log) :
              /\ log[k].q = Tier1Query <=> k = 1
              /\ log[k].q = Tier2Query => k = 2
              /\ AdapterOf(log[k].q) # "application" =>
                    /\ app_version # NoneS
                    /\ \E n \in 1..Len(req) : req[n] = log[k].pkg
        /\ \A j, k \in 1..Len(log) :
              (j < k /\ AdapterOf(log[j].q) # "application") =>
                  /\ AdapterOf(log[k].q) # "application"
                  /\ PlaceOf(log[j].pkg) <= PlaceOf(log[k].pkg)
                  /\ log[j] # log[k]
        /\ Len(pkg_tags) = idx - 1
        /\ \A k \in 1..Len(pkg_tags) : pkg_tags[k].key = req[k]

\* C7 witness: two packages, both tiers and an adapter query for each
C7_Witness ==
    /\ Len(req) = 2
    /\ Distinct(req)
    /\ Len(log) >= 4
    /\ log[2].q = Tier2Query
    /\ Len(pkg_tags) = 2
    /\ exit_code = 0

\* C8: a run ends in one of two ways.  Exit code 0: one JSON object on
\* standard output with the application version and a tag for every requested
\* name.  Exit code 1: a failure, nothing on standard output and nothing in the
\* environment file.  Nothing is emitted before the end.
C8_TwoOutcomes ==
    IF pc = "exited"
    THEN \/ /\ exit_code = 0
            /\ failure = "none"
            /\ stdout = <<ResultObject(app_version, pkg_tags)>>
            /\ app_version # NoneS
            /\ \A n \in 1..Len(req) : \E k \in 1..Len(pkg_tags) : pkg_tags[k].key = req[n]
            /\ env_file \in {<<>>, EnvLines(app_version, pkg_tags)}
         \/ /\ exit_code = 1
            /\ failure # "none"
            /\ stdout = <<>>
            /\ env_file = <<>>
    ELSE /\ exit_code = -1
         /\ failure = "none"
         /\ stdout = <<>>
         /\ env_file = <<>>

\* C8 witness: the application version and the first package were resolved,
\* the second package failed, and nothing was emitted
C8_Witness ==
    /\ pc = "exited"
    /\ exit_code = 1
    /\ app_version # NoneS
    /\ pkg_tags # <<>>
    /\ stdout = <<>>
    /\ env_file = <<>>

\* C8 witness of the success: two tags and the environment file written
C8_WitnessSuccess ==
    /\ exit_code = 0
    /\ Len(stdout) = 1
    /\ Len(stdout[1].package_tags) = 2
    /\ Len(env_file) = 3

\* the stage segment of the repository key of an adapter request
StageSegment(q) == q.repo[5]

\* the segment after the last "-" of the trimmed stage, the whole trimmed stage
\* when it has no "-"
LastSegment(stage) ==
    LET t == Strip(stage)
        dashes == {k \in 1..Len(t) : t[k] = "-"}
    IN  IF dashes = {} THEN t ELSE SubSeq(t, SetMax(dashes) + 1, Len(t))

\* C11 as stated: the stage segment of every repository key the run queried is
\* not empty, is in upper case, is the last "-" segment of the trimmed --stage
\* (DEV when that segment is empty), and normalising it again changes nothing.
C11_StageSuffix ==
    \A k \in 1..Len(log) :
        AdapterOf(log[k].q) # "application" =>
            LET r == StageSegment(log[k].q)
            IN  /\ r = stage_suffix_for_repo(args.stage)
                /\ r # <<>>
                /\ r = Upper(r)
                /\ r = IF LastSegment(args.stage) = <<>> THEN StageDev
                       ELSE Upper(LastSegment(args.stage))
                /\ stage_suffix_for_repo(r) = r

====
